---- MODULE Spec2Model ----
(***************************************************************************)
(* A model of scripts/data_calc.py (form submissions -> per-filial tabs)   *)
(* and of the part of scripts/send_email.py that consumes its output.      *)
(*                                                                         *)
(* Text (e-mail addresses, column names, labels, cell contents) is a       *)
(* sequence of characters, so that str.strip and str.lower are computed.   *)
(* A multi-letter word that the code never looks inside stands as one      *)
(* element of the sequence.  The characters are those of Latin-1; one      *)
(* outside ASCII is written by its code point, "U+00C0" for a capital A    *)
(* with grave, so that the module is the same text in every encoding.      *)
(***************************************************************************)
EXTENDS Integers, Sequences, FiniteSets, TLC

VARIABLES
    pc,                 \* position of the current invocation of main()
    df,                 \* rows of the responses worksheet
    now,                \* datetime.now() as [year, month]
    latest,             \* result of filter_current_month_latest_per_email
    sheets,             \* filial name -> worksheet [colA, colB]
    file,               \* processed_emails.json
    processed_emails,   \* main: processed_emails
    new_emails,         \* main: new_emails
    updated_tabs,       \* main: updated_tabs
    processed_this_run, \* main: processed_this_run
    idx,                \* main: position of the second loop in latest
    out,                \* the NAME=value lines printed by this invocation
    fault,              \* what went wrong in this invocation, if anything
    prev,               \* summary of the previous invocation
    exported_files,     \* send_email.main: the tabs exported, in order
    mail,               \* send_email.main: the e-mails sent, each the list of
                        \* the tabs whose PDF it carries
    ws,                 \* the worksheet update_filial_tab is applied to
    submission,         \* the submission_row_dict it is applied with
    applied             \* 0: not yet applied, 1: applied, 2: applied again
                        \* with the submission of the application before

vars == <<pc, df, now, latest, sheets, file, processed_emails, new_emails,
          updated_tabs, processed_this_run, idx, out, fault, prev,
          exported_files, mail, ws, submission, applied>>

runVars == <<pc, df, now, latest, sheets, file, processed_emails, new_emails,
             updated_tabs, processed_this_run, idx, out, fault, prev,
             exported_files, mail>>

projVars == <<ws, submission, applied>>

----------------------------------------------------------------------------
(* Bounds of the model *)

MaxRows == 2        \* rows of the responses worksheet in a run of main
MaxFilterRows == 3  \* rows of the frame handed to the period filter
LowRows == 1        \* rows 1..LowRows of a filial tab are modelled, and the
                    \* two rows on either side of the end of the cleared range
MaxFields == 2      \* columns of a submission handed to update_filial_tab

(* Program constants *)

ClearLastRow == 200 \* "B1:B200"
ValueCol == 2       \* column B

----------------------------------------------------------------------------
(* Text *)

\* the characters str.isspace() holds of: tab, line feed, vertical tab, form
\* feed, carriage return, the four separators 1C-1F, space, NEL (U+0085),
\* no-break space (U+00A0)
Whitespace ==
    {
      "\t", "\n", "", "\f", "\r", "",
      "", "", "", " ", "U+0085", "U+00A0" }

RECURSIVE LStrip(_)
LStrip(s) ==
    IF Len(s) > 0 /\ Head(s) \in Whitespace THEN LStrip(Tail(s)) ELSE s

RECURSIVE RStrip(_)
RStrip(s) ==
    IF Len(s) > 0 /\ s[Len(s)] \in Whitespace
    THEN RStrip(SubSeq(s, 1, Len(s) - 1))
    ELSE s

\* str.strip()
Strip(s) == RStrip(LStrip(s))

\* the cased characters that str.lower() changes, and what it makes of them
UpperChars ==
    <<
      "A", "B", "C", "D", "E", "F", "G", "H",
      "I", "J", "K", "L", "M", "N", "O", "P",
      "Q", "R", "S", "T", "U", "V", "W", "X",
      "Y", "Z", "U+00C0", "U+00C1", "U+00C2", "U+00C3", "U+00C4", "U+00C5",
      "U+00C6", "U+00C7", "U+00C8", "U+00C9", "U+00CA", "U+00CB", "U+00CC", "U+00CD",
      "U+00CE", "U+00CF", "U+00D0", "U+00D1", "U+00D2", "U+00D3", "U+00D4", "U+00D5",
      "U+00D6", "U+00D8", "U+00D9", "U+00DA", "U+00DB", "U+00DC", "U+00DD", "U+00DE" >>

LowerChars ==
    <<
      "a", "b", "c", "d", "e", "f", "g", "h",
      "i", "j", "k", "l", "m", "n", "o", "p",
      "q", "r", "s", "t", "u", "v", "w", "x",
      "y", "z", "U+00E0", "U+00E1", "U+00E2", "U+00E3", "U+00E4", "U+00E5",
      "U+00E6", "U+00E7", "U+00E8", "U+00E9", "U+00EA", "U+00EB", "U+00EC", "U+00ED",
      "U+00EE", "U+00EF", "U+00F0", "U+00F1", "U+00F2", "U+00F3", "U+00F4", "U+00F5",
      "U+00F6", "U+00F8", "U+00F9", "U+00FA", "U+00FB", "U+00FC", "U+00FD", "U+00FE" >>

LowerChar(c) ==
    IF \E i \in 1..Len(UpperChars) : UpperChars[i] = c
    THEN LowerChars[CHOOSE i \in 1..Len(UpperChars) : UpperChars[i] = c]
    ELSE c

\* str.lower()
Lower(s) == [i \in 1..Len(s) |-> LowerChar(s[i])]

\* row["Endereco de e-mail"].strip().lower()
NormalizeEmail(s) == Lower(Strip(s))

DigitChar(d) ==
    CASE d = 0 -> "0" [] d = 1 -> "1" [] d = 2 -> "2" [] d = 3 -> "3"
      [] d = 4 -> "4" [] d = 5 -> "5" [] d = 6 -> "6" [] d = 7 -> "7"
      [] d = 8 -> "8" [] d = 9 -> "9"

RECURSIVE IntToStr(_)
IntToStr(n) ==
    IF n < 10 THEN <<DigitChar(n)>>
    ELSE IntToStr(n \div 10) \o <<DigitChar(n % 10)>>

Pad2(n) == IF n < 10 THEN <<"0">> \o IntToStr(n) ELSE IntToStr(n)

----------------------------------------------------------------------------
(* Values of a frame *)

\* pandas NaT: what pd.to_datetime(errors="coerce") gives an unparseable stamp
NaT == [year |-> 0, month |-> 0, day |-> 0]

\* a missing e-mail (None / NaN) in the frame
NoEmail == <<"<NA>">>

Stamp(y, m, d) == [year |-> y, month |-> m, day |-> d]

\* Timestamp ordering used by sort_values
TsLess(a, b) ==
    \/ a.year < b.year
    \/ a.year = b.year /\ a.month < b.month
    \/ a.year = b.year /\ a.month = b.month /\ a.day < b.day

\* cell values: k is the Python type, v the value
NaN == [k |-> "nan", v |-> 0]
IntVal(n) == [k |-> "int", v |-> n]
StrVal(s) == [k |-> "str", v |-> s]
TsVal(t) == [k |-> "ts", v |-> t]

\* pd.isna(value)
IsNa(value) == value.k = "nan" \/ (value.k = "ts" /\ value.v = NaT)

\* str(value)
Str(value) ==
    CASE value.k = "int" -> IntToStr(value.v)
      [] value.k = "str" -> value.v
      [] value.k = "ts" ->
            IntToStr(value.v.year) \o <<"-">> \o Pad2(value.v.month) \o <<"-">>
            \o Pad2(value.v.day) \o <<" ", "0", "0", ":", "0", "0", ":", "0", "0">>
      [] OTHER -> <<"n", "a", "n">>

\* "" if pd.isna(value) else str(value)
CellText(value) == IF IsNa(value) THEN <<>> ELSE Str(value)

----------------------------------------------------------------------------
(* filter_current_month_latest_per_email *)

\* df.dropna(subset=[timestamp, e-mail])
DropNa(frame) == SelectSeq(frame, LAMBDA r : r.ts # NaT /\ r.email # NoEmail)

\* df[(df["year"] == now.year) & (df["month"] == now.month)]
InMonth(frame, ref) ==
    SelectSeq(frame, LAMBDA r : r.ts.year = ref.year /\ r.ts.month = ref.month)

\* the ways to arrange n rows
Perms(n) == {p \in [1..n -> 1..n] : \A i, j \in 1..n : i # j => p[i] # p[j]}

\* df_month.sort_values(timestamp), kind left at its default "quicksort",
\* which is not stable: the rows come out in ascending order of their stamps
\* and rows with equal stamps in any order.  The set of the possible results.
SortValues(frame) ==
    {[i \in 1..Len(frame) |-> frame[p[i]]] :
        p \in {q \in Perms(Len(frame)) :
                 \A i, j \in 1..Len(frame) :
                    i < j => ~TsLess(frame[q[j]].ts, frame[q[i]].ts)}}

\* groupby(e-mail).tail(1): the last row of each group, in frame order;
\* the group key is the e-mail as it stands in the frame
GroupByEmailTail(frame) ==
    LET keep == {i \in 1..Len(frame) :
                    \A j \in (i + 1)..Len(frame) : frame[j].email # frame[i].email}
        RECURSIVE Pick(_)
        Pick(i) == IF i > Len(frame) THEN <<>>
                   ELSE (IF i \in keep THEN <<frame[i]>> ELSE <<>>) \o Pick(i + 1)
    IN Pick(1)

\* the set of the results the call can give (one, unless stamps are equal)
filter_current_month_latest_per_email(frame, ref) ==
    LET df_month == InMonth(DropNa(frame), ref)
    IN IF df_month = <<>> THEN {df_month}
       ELSE {GroupByEmailTail(sorted) : sorted \in SortValues(df_month)}

----------------------------------------------------------------------------
(* A filial tab: column A holds the labels, column B the values.  Rows that *)
(* are not modelled hold a blank label and an empty value, which no step    *)
(* of update_filial_tab changes.                                            *)

ModelRows == (1..LowRows) \cup {ClearLastRow, ClearLastRow + 1}

Min(S) == CHOOSE x \in S : \A y \in S : x <= y
Max(S) == CHOOSE x \in S : \A y \in S : x >= y

RECURSIVE Ascending(_)
Ascending(S) == IF S = {} THEN <<>> ELSE <<Min(S)>> \o Ascending(S \ {Min(S)})

\* a Python dict as a function on its keys
EmptyDict == [k \in {} |-> 0]
DictSet(d, k, v) == [x \in DOMAIN d \cup {k} |-> IF x = k THEN v ELSE d[x]]

\* filial_ws.col_values(1): the rows of column A from the top
ColValues(w) == Ascending(DOMAIN w.colA)

\* variant: a label already in the map keeps its row
RECURSIVE LabelLoopFirst(_, _, _)
LabelLoopFirst(w, rows, label_to_row) ==
    IF rows = <<>> THEN label_to_row
    ELSE LET i == Head(rows)
             label == Strip(w.colA[i])
         IN LabelLoopFirst(w, Tail(rows),
                IF Len(label) > 0 /\ label \notin DOMAIN label_to_row
                THEN DictSet(label_to_row, label, i)
                ELSE label_to_row)

build_label_row_map_first(filial_ws) ==
    LabelLoopFirst(filial_ws, ColValues(filial_ws), EmptyDict)

\* for i, label in enumerate(col_a, start=1): ... label_to_row[label] = i
RECURSIVE LabelLoop(_, _, _)
LabelLoop(w, rows, label_to_row) ==
    IF rows = <<>> THEN label_to_row
    ELSE LET i == Head(rows)
             label == Strip(w.colA[i])
         IN LabelLoop(w, Tail(rows),
                IF Len(label) > 0
                THEN DictSet(label_to_row, label, i)
                ELSE label_to_row)

build_label_row_map(filial_ws) ==
    LabelLoop(filial_ws, ColValues(filial_ws), EmptyDict)

\* ws.batch_clear(["B1:B200"])
BatchClear(w) ==
    [w EXCEPT !.colB = [r \in ModelRows |->
                          IF r \in 1..ClearLastRow THEN <<>> ELSE w.colB[r]]]

\* the loop over submission_row_dict.items() that fills updates
RECURSIVE StagedUpdates(_, _)
StagedUpdates(label_to_row, items) ==
    IF items = <<>> THEN <<>>
    ELSE LET label == Strip(Head(items).name)
         IN (IF label \in DOMAIN label_to_row
             THEN << <<label_to_row[label], ValueCol, CellText(Head(items).value)>> >>
             ELSE <<>>)
            \o StagedUpdates(label_to_row, Tail(items))

\* variant: the staged text is added to what the cell holds
RECURSIVE SetCellsAppending(_, _)
SetCellsAppending(cell_map, updates) ==
    IF updates = <<>> THEN cell_map
    ELSE LET r == Head(updates)[1]
             v == Head(updates)[3]
         IN SetCellsAppending(IF r \in DOMAIN cell_map
                              THEN [cell_map EXCEPT ![r] = @ \o v]
                              ELSE cell_map,
                              Tail(updates))

\* for r, c, v in updates: if r in cell_map: cell_map[r].value = v
RECURSIVE SetCells(_, _)
SetCells(cell_map, updates) ==
    IF updates = <<>> THEN cell_map
    ELSE LET r == Head(updates)[1]
             v == Head(updates)[3]
         IN SetCells(IF r \in DOMAIN cell_map
                     THEN [cell_map EXCEPT ![r] = v]
                     ELSE cell_map,
                     Tail(updates))

\* ws.range(min row, 2, max row, 2), the cells set, ws.update_cells(cell_list)
WriteCells(w, updates) ==
    IF updates = <<>> THEN w
    ELSE LET touched == {updates[i][1] : i \in 1..Len(updates)}
             cell_list == {r \in ModelRows : Min(touched) <= r /\ r <= Max(touched)}
             cell_map == SetCells([r \in cell_list |-> w.colB[r]], updates)
         IN [w EXCEPT !.colB = [r \in ModelRows |->
                                  IF r \in cell_list THEN cell_map[r] ELSE w.colB[r]]]

update_filial_tab(w, submission_row_dict) ==
    LET cleared == BatchClear(w)
        label_to_row == build_label_row_map(cleared)
    IN WriteCells(cleared, StagedUpdates(label_to_row, submission_row_dict))

----------------------------------------------------------------------------
(* update_filial_tab on its own: one tab, any submissions one after another *)

Labels == {<<" ", "\t">>, <<"L">>, <<"\t", "L", "\n">>}
FieldNames == {<<"L">>, <<"\r", "L", " ">>, <<"X">>}
FieldValues == {NaN, IntVal(12)}

Submissions ==
    {s \in UNION {[1..n -> [name : FieldNames, value : FieldValues]] : n \in 0..MaxFields} :
        \A i, j \in 1..Len(s) : i # j => s[i].name # s[j].name}

EmptyColumn == [r \in ModelRows |-> <<>>]

\* what an earlier month may have left in a cell
OldTexts == {<<>>, <<"9">>}

NoFault == [load |-> FALSE, save |-> FALSE, fetch |-> FALSE, dest |-> "none"]
NoPrev == [ok |-> FALSE, updated |-> <<>>, dirty |-> FALSE]
NoFile == [exists |-> FALSE, parsable |-> FALSE, emails |-> {}]

\* main's local variables before its first statement
FreshLocals ==
    /\ latest = <<>> /\ processed_emails = {} /\ new_emails = {}
    /\ updated_tabs = <<>> /\ processed_this_run = {} /\ idx = 0
    /\ out = <<>> /\ fault = NoFault /\ exported_files = <<>>
    /\ mail = <<>>

IdleRun ==
    /\ pc = "idle" /\ df = <<>> /\ now = [year |-> 2024, month |-> 5]
    /\ sheets = <<>> /\ file = NoFile /\ prev = NoPrev
    /\ FreshLocals

InitProject ==
    /\ IdleRun
    /\ ws \in [colA : [ModelRows -> Labels], colB : [ModelRows -> OldTexts]]
    /\ submission = <<>>
    /\ applied = 0

Project ==
    \E s \in Submissions :
        /\ ws' = update_filial_tab(ws, s)
        /\ submission' = s
        /\ applied' = IF applied > 0 /\ s = submission THEN 2 ELSE 1
        /\ UNCHANGED runVars

NextProject == Project

SpecProject == InitProject /\ [][NextProject]_vars

----------------------------------------------------------------------------
(* filter_current_month_latest_per_email on its own: any frame, any month *)

FilterEmails == {<<"a">>, <<"A">>, <<"\t", "a", " ">>, <<"D">>, NoEmail}
FilterStamps ==
    {Stamp(2024, 5, 1), Stamp(2024, 5, 2), Stamp(2024, 4, 2), Stamp(2023, 5, 1), NaT}
\* every stamp with every e-mail, and one row that differs from another of
\* the same e-mail and stamp in its answer only
FilterRows ==
    [ts : FilterStamps, email : FilterEmails, q : {NaN}]
       \cup {[ts |-> Stamp(2024, 5, 2), email |-> <<"a">>, q |-> IntVal(12)]}
FilterMonths == {[year |-> 2024, month |-> 5], [year |-> 2024, month |-> 4]}

InitFilter ==
    /\ pc = "idle"
    /\ df \in UNION {[1..n -> FilterRows] : n \in 0..MaxFilterRows}
    /\ now \in FilterMonths
    /\ sheets = <<>> /\ file = NoFile /\ prev = NoPrev
    /\ FreshLocals
    /\ ws = [colA |-> EmptyColumn, colB |-> EmptyColumn]
    /\ submission = <<>> /\ applied = 0

ApplyFilter ==
    /\ pc = "idle"
    /\ latest' \in filter_current_month_latest_per_email(df, now)
    /\ pc' = "filtered"
    /\ UNCHANGED <<df, now, sheets, file, processed_emails, new_emails,
                   updated_tabs, processed_this_run, idx, out, fault, prev,
                   exported_files, mail, projVars>>

NextFilter == ApplyFilter

SpecFilter == InitFilter /\ [][NextFilter]_vars

----------------------------------------------------------------------------
(* main: configuration and the stores it works on *)

\* EMAIL_TO_FILIAL, from the EMAIL_TO_FILIAL secret
EMAIL_TO_FILIAL ==
    [e \in {<<"a">>, <<"b">>, <<"c">>} |-> IF e = <<"b">> THEN "F2" ELSE "F1"]

\* what dict.get returns for a missing key
None == "None"

\* EMAIL_TO_FILIAL.get(email)
Get(d, k) == IF k \in DOMAIN d THEN d[k] ELSE None

\* if filial:
Truthy(filial) == filial # None /\ filial # ""

\* columns of the responses worksheet
ColTimestamp == <<"Carimbo", " ", "de", " ", "data/hora">>
ColEmail == <<"Endereco", " ", "de", " ", "e-mail">>
ColQuestion == <<"Q">>
ColYear == <<"year">>
ColMonth == <<"month">>

\* row.to_dict(): the sheet's columns, then the two the filter adds
ToDict(row) ==
    << [name |-> ColTimestamp, value |-> TsVal(row.ts)],
       [name |-> ColEmail, value |-> StrVal(row.email)],
       [name |-> ColQuestion, value |-> row.q],
       [name |-> ColYear, value |-> IntVal(row.ts.year)],
       [name |-> ColMonth, value |-> IntVal(row.ts.month)] >>

\* rows the form can add to the responses worksheet
FormRows ==
    { [ts |-> Stamp(2024, 5, 1), email |-> <<"a">>, q |-> IntVal(7)],
      [ts |-> Stamp(2024, 5, 1), email |-> <<"a">>, q |-> IntVal(12)],
      [ts |-> Stamp(2024, 5, 2), email |-> <<"\n", "A", " ">>, q |-> IntVal(12)],
      [ts |-> Stamp(2024, 5, 2), email |-> <<"b">>, q |-> StrVal(<<>>)],
      [ts |-> Stamp(2024, 5, 2), email |-> <<"c">>, q |-> IntVal(7)],
      [ts |-> Stamp(2024, 5, 1), email |-> <<"z">>, q |-> IntVal(7)],
      [ts |-> Stamp(2024, 6, 1), email |-> <<"B">>, q |-> IntVal(12)],
      [ts |-> NaT, email |-> <<"a">>, q |-> IntVal(7)] }

LastMonth == [year |-> 2024, month |-> 6]

\* the tabs of the spreadsheet, one per filial
FilialTab ==
    [colA |-> [r \in ModelRows |->
                 IF r = 1 THEN <<"Q", " ">>
                 ELSE IF r = ClearLastRow + 1 THEN <<"month">>
                 ELSE <<>>],
     colB |-> EmptyColumn]

----------------------------------------------------------------------------
(* processed_emails.json *)

\* readFails: open() or json.load() raises although the file is there
load_processed_emails(f, readFails) ==
    IF ~f.exists THEN [emails |-> {}, failed |-> FALSE]
    ELSE IF ~f.parsable \/ readFails THEN [emails |-> {}, failed |-> TRUE]
    ELSE [emails |-> f.emails, failed |-> FALSE]

SaveOutcomes == {"ok", "open_raises", "dump_raises"}

\* open(..., 'w') truncates the file before json.dump writes it
save_processed_emails(f, emails, outcome) ==
    CASE outcome = "ok" -> [exists |-> TRUE, parsable |-> TRUE, emails |-> emails]
      [] outcome = "open_raises" -> f
      [] outcome = "dump_raises" -> [exists |-> TRUE, parsable |-> FALSE, emails |-> {}]

----------------------------------------------------------------------------
(* main *)

\* variant: every e-mail of the period is tracked, mapped or not
RECURSIVE CurrentEmailsUnguarded(_)
CurrentEmailsUnguarded(rows) ==
    IF rows = <<>> THEN {}
    ELSE {NormalizeEmail(Head(rows).email)} \cup CurrentEmailsUnguarded(Tail(rows))

\* the first loop over latest.iterrows(): current_emails
RECURSIVE CurrentEmails(_)
CurrentEmails(rows) ==
    IF rows = <<>> THEN {}
    ELSE LET email == NormalizeEmail(Head(rows).email)
             filial == Get(EMAIL_TO_FILIAL, email)
         IN (IF Truthy(filial) THEN {email} ELSE {}) \cup CurrentEmails(Tail(rows))

\* variant: only the earlier state is saved
AllProcessedStale(processed, this_run) == processed

\* all_processed = processed_emails | processed_this_run
AllProcessed(processed, this_run) == processed \cup this_run

\* the loop over new_emails that fills new_filiais, in the set's iteration order
RECURSIVE NewFiliais(_, _)
NewFiliais(order, acc) ==
    IF order = <<>> THEN acc
    ELSE LET filial == Get(EMAIL_TO_FILIAL, Head(order))
         IN NewFiliais(Tail(order),
                       IF Truthy(filial) /\ \A i \in 1..Len(acc) : acc[i] # filial
                       THEN Append(acc, filial) ELSE acc)

\* the orders in which a set of strings can be iterated
Orders(S) ==
    {o \in [1..Cardinality(S) -> S] : \A i, j \in 1..Cardinality(S) : i # j => o[i] # o[j]}

Between == pc \in {"idle", "done", "nothing_to_send", "sent", "send_failed", "aborted"}

\* the invocation of data_calc.main ended without an exception
Ended == pc \in {"done", "nothing_to_send", "sent", "send_failed"}

\* the value printed under a name
OutValue(name) ==
    LET i == CHOOSE i \in 1..Len(out) : out[i].name = name IN out[i].value

OutNames == {out[i].name : i \in 1..Len(out)}

InitRun ==
    /\ pc = "idle" /\ df = <<>> /\ now = [year |-> 2024, month |-> 5]
    /\ sheets = [f \in {"F1", "F2"} |-> FilialTab]
    /\ file = NoFile /\ prev = NoPrev
    /\ FreshLocals
    /\ ws = FilialTab /\ submission = <<>> /\ applied = 0

\* the form receives a submission between two invocations
AppendSubmission ==
    /\ Between
    /\ Len(df) < MaxRows
    /\ \E r \in FormRows : df' = Append(df, r)
    /\ prev' = [prev EXCEPT !.dirty = TRUE]
    /\ UNCHANGED <<pc, now, latest, sheets, file, processed_emails, new_emails,
                   updated_tabs, processed_this_run, idx, out, fault,
                   exported_files, mail, projVars>>

\* the month ends between two invocations
AdvanceClock ==
    /\ Between
    /\ now # LastMonth
    /\ now' = LastMonth
    /\ prev' = [prev EXCEPT !.dirty = TRUE]
    /\ UNCHANGED <<pc, df, latest, sheets, file, processed_emails, new_emails,
                   updated_tabs, processed_this_run, idx, out, fault,
                   exported_files, mail, projVars>>

\* what the invocation that just ended leaves for the next one to be compared with
Summary ==
    LET ok == /\ Ended /\ idx > 0
              /\ ~fault.load /\ ~fault.save
              /\ processed_emails = {}
    IN [ok |-> ok, updated |-> IF ok THEN updated_tabs ELSE <<>>, dirty |-> FALSE]

\* main, lines 118-126: connect, read, filter, and the return on an empty month
FetchAndFilter ==
    /\ Between
    /\ prev' = IF prev.dirty THEN NoPrev ELSE Summary
    /\ processed_emails' = {} /\ new_emails' = {} /\ updated_tabs' = <<>>
    /\ processed_this_run' = {} /\ idx' = 0 /\ exported_files' = <<>>
    /\ mail' = <<>>
    /\ \/ \* a worksheet with no rows gives a frame with no columns: KeyError
          /\ df = <<>>
          /\ latest' = <<>> /\ out' = <<>>
          /\ fault' = [NoFault EXCEPT !.fetch = TRUE]
          /\ pc' = "aborted"
       \/ /\ df # <<>>
          /\ filter_current_month_latest_per_email(df, now) = {<<>>}
          /\ latest' = <<>>
          /\ out' = << [name |-> "PROCESSED_EMAILS_JSON", value |-> <<>>],
                       [name |-> "NEW_EMAILS_JSON", value |-> <<>>] >>
          /\ fault' = NoFault
          /\ pc' = "done"
       \/ /\ df # <<>>
          /\ filter_current_month_latest_per_email(df, now) # {<<>>}
          /\ latest' \in filter_current_month_latest_per_email(df, now)
          /\ out' = <<>>
          /\ fault' = NoFault
          /\ pc' = "load"
    /\ UNCHANGED <<df, now, sheets, file, projVars>>

\* main, lines 128-146
LoadAndCompare ==
    /\ pc = "load"
    /\ \E readFails \in BOOLEAN :
          LET loaded == load_processed_emails(file, readFails)
          IN /\ processed_emails' = loaded.emails
             /\ fault' = [fault EXCEPT !.load = loaded.failed]
             /\ new_emails' = CurrentEmails(latest) \ loaded.emails
    /\ idx' = 1
    /\ pc' = "loop"
    /\ UNCHANGED <<df, now, latest, sheets, file, updated_tabs,
                   processed_this_run, out, prev, exported_files, mail, projVars>>

\* main, lines 148-165: one turn of the loop over latest.iterrows()
ProjectRow ==
    /\ pc = "loop"
    /\ idx <= Len(latest)
    /\ LET row == latest[idx]
           email == NormalizeEmail(row.email)
           filial == Get(EMAIL_TO_FILIAL, email)
       IN \/ /\ ~Truthy(filial)
             /\ idx' = idx + 1
             /\ UNCHANGED <<pc, sheets, updated_tabs, processed_this_run, fault>>
          \/ /\ Truthy(filial)
             /\ sheets' = [sheets EXCEPT ![filial] = update_filial_tab(@, ToDict(row))]
             /\ updated_tabs' =
                   IF \A i \in 1..Len(updated_tabs) : updated_tabs[i] # filial
                   THEN Append(updated_tabs, filial) ELSE updated_tabs
             /\ processed_this_run' = processed_this_run \cup {email}
             /\ idx' = idx + 1
             /\ UNCHANGED <<pc, fault>>
          \/ \* sh.worksheet or batch_clear raises: nothing was changed
             /\ Truthy(filial)
             /\ fault' = [fault EXCEPT !.dest = filial]
             /\ pc' = "aborted"
             /\ UNCHANGED <<sheets, updated_tabs, processed_this_run, idx>>
          \/ \* col_values, range or update_cells raises: the column was cleared
             /\ Truthy(filial)
             /\ sheets' = [sheets EXCEPT ![filial] = BatchClear(@)]
             /\ fault' = [fault EXCEPT !.dest = filial]
             /\ pc' = "aborted"
             /\ UNCHANGED <<updated_tabs, processed_this_run, idx>>
    /\ UNCHANGED <<df, now, latest, file, processed_emails, new_emails, out,
                   prev, exported_files, mail, projVars>>

\* main, lines 167-169
SaveState ==
    /\ pc = "loop"
    /\ idx > Len(latest)
    /\ \E outcome \in SaveOutcomes :
          /\ file' = save_processed_emails(
                        file, AllProcessed(processed_emails, processed_this_run), outcome)
          /\ fault' = [fault EXCEPT !.save = (outcome # "ok")]
    /\ pc' = "emit"
    /\ UNCHANGED <<df, now, latest, sheets, processed_emails, new_emails,
                   updated_tabs, processed_this_run, idx, out, prev,
                   exported_files, mail, projVars>>

\* main, lines 171-181
Emit ==
    /\ pc = "emit"
    /\ \E order \in Orders(new_emails) :
          out' = << [name |-> "UPDATED_SHEETS_JSON", value |-> updated_tabs],
                    [name |-> "NEW_EMAILS_JSON", value |-> order],
                    [name |-> "NEW_FILIAIS_JSON", value |-> NewFiliais(order, <<>>)] >>
    /\ pc' = "done"
    /\ UNCHANGED <<df, now, latest, sheets, file, processed_emails, new_emails,
                   updated_tabs, processed_this_run, idx, fault, prev,
                   exported_files, mail, projVars>>

\* send_email.main: UPDATED_SHEETS_JSON is handed the NEW_FILIAIS_JSON line,
\* "[]" when there is none; each tab is exported in the order of the list.
\* An exception (credentials, a missing tab, a refused export, the send)
\* leaves main: what was exported stays in pdf_out and no e-mail is sent.
SendEmail ==
    /\ pc = "done"
    /\ LET new_filiais == IF "NEW_FILIAIS_JSON" \in OutNames
                          THEN OutValue("NEW_FILIAIS_JSON") ELSE <<>>
       IN \/ \* "No new filiais to export."
             /\ new_filiais = <<>>
             /\ exported_files' = <<>>
             /\ mail' = <<>>
             /\ pc' = "nothing_to_send"
          \/ /\ new_filiais # <<>>
             /\ exported_files' = new_filiais
             /\ mail' = <<new_filiais>>
             /\ pc' = "sent"
          \/ \* k tabs were exported when the exception was raised
             /\ new_filiais # <<>>
             /\ \E k \in 0..Len(new_filiais) :
                   exported_files' = SubSeq(new_filiais, 1, k)
             /\ mail' = <<>>
             /\ pc' = "send_failed"
    /\ UNCHANGED <<df, now, latest, sheets, file, processed_emails, new_emails,
                   updated_tabs, processed_this_run, idx, out, fault, prev, projVars>>

Next ==
    \/ AppendSubmission
    \/ AdvanceClock
    \/ FetchAndFilter
    \/ LoadAndCompare
    \/ ProjectRow
    \/ SaveState
    \/ Emit
    \/ SendEmail

Spec == InitRun /\ [][Next]_vars

----------------------------------------------------------------------------
(* Properties *)

Elems(seq) == {seq[i] : i \in 1..Len(seq)}

\* the frame's rows of the reference month that have a stamp and an e-mail
InPeriod == InMonth(DropNa(df), now)

\* C1: the period filter returns at most one submission per normalized
\* identity (trimmed, case-folded), and it is one with the latest timestamp
\* among the in-period submissions of that identity.
C1_OnePerIdentityLatest ==
    pc = "filtered" =>
        /\ \A i, j \in 1..Len(latest) :
              i # j => NormalizeEmail(latest[i].email) # NormalizeEmail(latest[j].email)
        /\ \A i \in 1..Len(latest) : \A k \in 1..Len(InPeriod) :
              NormalizeEmail(InPeriod[k].email) = NormalizeEmail(latest[i].email)
                 => ~TsLess(latest[i].ts, InPeriod[k].ts)

\* the rows of the tab that the submission has a field for
TargetRows(w, items) ==
    {r \in ModelRows : \E i \in 1..Len(items) :
        /\ Strip(items[i].name) \in DOMAIN build_label_row_map(w)
        /\ build_label_row_map(w)[Strip(items[i].name)] = r}

\* C2: after update_filial_tab, no row of the value column, whatever its
\* number, holds a value unless the submission just projected has a field
\* whose label maps to that row.
C2_NoStaleValueAnywhere ==
    applied > 0 =>
        \A r \in ModelRows : ws.colB[r] # <<>> => r \in TargetRows(ws, submission)

\* C3: when a destination-store operation fails for one entity, the entity is
\* not in the updated list and the invocation still visits every remaining
\* submission and prints its outputs; it is never aborted.
C3_FailureIsContained ==
    (fault.dest # "none" /\ (Ended \/ pc = "aborted")) =>
        /\ Ended
        /\ idx > Len(latest)
        /\ fault.dest \notin Elems(updated_tabs)
        /\ "UPDATED_SHEETS_JSON" \in OutNames

\* the set of e-mails processed_emails.json holds
StoredSet(f) == IF f.exists THEN f.emails ELSE {}

\* C4: every invocation that saves its state saves a superset of what was
\* stored before it, whether its load succeeded or fell back to the empty set.
C4_RunStateOnlyGrows ==
    [][(pc = "loop" /\ pc' = "emit" /\ ~fault'.save)
          => StoredSet(file) \subseteq StoredSet(file')]_vars

\* C5: an invocation that starts from empty persisted state reports every
\* identity it projected, and the entity of each, as new; the next
\* invocation over the same submissions, mapping and month, which loads what
\* the first saved, reports the same updated list and an empty delta.
C5_SecondRunEmptyDelta ==
    /\ (Ended /\ idx > 0 /\ ~fault.load /\ processed_emails = {}) =>
          /\ Elems(OutValue("NEW_EMAILS_JSON")) = processed_this_run
          /\ Elems(OutValue("NEW_FILIAIS_JSON")) = Elems(OutValue("UPDATED_SHEETS_JSON"))
    /\ (Ended /\ idx > 0 /\ ~fault.load /\ prev.ok) =>
          /\ Elems(OutValue("UPDATED_SHEETS_JSON")) = Elems(prev.updated)
          /\ Len(OutValue("UPDATED_SHEETS_JSON")) = Len(prev.updated)
          /\ OutValue("NEW_EMAILS_JSON") = <<>>
          /\ OutValue("NEW_FILIAIS_JSON") = <<>>

C5_Witness ==
    /\ Ended /\ idx > 0 /\ ~fault.load /\ prev.ok
    /\ Len(prev.updated) = 2
    /\ file.emails # {}

\* C6: every invocation that ends without an exception, also one with no
\* submission in the month, prints the three outputs under the same names.
C6_ThreeOutputsAlways ==
    Ended => OutNames = {"UPDATED_SHEETS_JSON", "NEW_EMAILS_JSON", "NEW_FILIAIS_JSON"}

\* C7: applying update_filial_tab again with the submission of the previous
\* application, the labels unchanged, leaves the tab as the previous
\* application left it.
C7_ProjectionIdempotent ==
    [][(applied > 0 /\ applied' = 2) => ws' = ws]_vars

C7_Witness ==
    /\ applied = 2
    /\ ClearLastRow + 1 \in TargetRows(ws, submission)
    /\ ws.colB[ClearLastRow + 1] # <<>>

\* the rows whose trimmed label is l
Occurrences(w, l) == {r \in ModelRows : Strip(w.colA[r]) = l}

HasField(items, l) == \E i \in 1..Len(items) : Strip(items[i].name) = l

\* the text of the last field of the submission whose trimmed name is l
FieldText(items, l) ==
    CellText(items[Max({i \in 1..Len(items) : Strip(items[i].name) = l})].value)

TrimmedLabels == {Strip(l) : l \in Labels} \ {<<>>}

\* C8 as stated: blank labels are skipped and a label found at several rows
\* maps to the first of them, where the submission's value is written.
C8_FirstOccurrenceWins ==
    applied > 0 =>
        /\ <<>> \notin DOMAIN build_label_row_map(ws)
        /\ \A l \in TrimmedLabels :
              Occurrences(ws, l) # {} =>
                 /\ build_label_row_map(ws)[l] = Min(Occurrences(ws, l))
                 /\ HasField(submission, l) =>
                       ws.colB[Min(Occurrences(ws, l))] = FieldText(submission, l)

\* C8, amended: blank labels are skipped and a label found at several rows
\* maps to the last of them; the submission's value is written there and
\* the rows of the earlier occurrences are left empty.
C8_LastOccurrenceWins ==
    applied > 0 =>
        /\ <<>> \notin DOMAIN build_label_row_map(ws)
        /\ \A l \in TrimmedLabels :
              Occurrences(ws, l) # {} =>
                 /\ build_label_row_map(ws)[l] = Max(Occurrences(ws, l))
                 /\ HasField(submission, l) =>
                       /\ ws.colB[Max(Occurrences(ws, l))] = FieldText(submission, l)
                       /\ \A r \in Occurrences(ws, l) \ {Max(Occurrences(ws, l))} :
                             ws.colB[r] = <<>>

C8_Witness ==
    /\ applied > 0
    /\ \E l \in TrimmedLabels :
          /\ Cardinality(Occurrences(ws, l)) > 1
          /\ \E r \in ModelRows : Strip(ws.colA[r]) = <<>>
          /\ HasField(submission, l)
          /\ ws.colB[Max(Occurrences(ws, l))] # <<>>

\* the filiais of the rows whose identity is in S, each at its first occurrence
RECURSIVE FirstOccurrences(_, _, _)
FirstOccurrences(rows, S, acc) ==
    IF rows = <<>> THEN acc
    ELSE LET email == NormalizeEmail(Head(rows).email)
             filial == Get(EMAIL_TO_FILIAL, email)
         IN FirstOccurrences(Tail(rows), S,
                IF email \in S /\ Truthy(filial) /\ filial \notin Elems(acc)
                THEN Append(acc, filial) ELSE acc)

\* C9: the order of the emitted lists is determined by the input: the
\* entities stand in the order in which their submissions leave the period
\* filter, each at its first occurrence, in the updated list and in the
\* delta entity list that the export step iterates.
C9_EmittedOrderDetermined ==
    (Ended /\ idx > 0) =>
        /\ OutValue("UPDATED_SHEETS_JSON")
              = FirstOccurrences(latest, DOMAIN EMAIL_TO_FILIAL, <<>>)
        /\ OutValue("NEW_FILIAIS_JSON") = FirstOccurrences(latest, new_emails, <<>>)
        /\ (pc = "sent" => mail = <<FirstOccurrences(latest, new_emails, <<>>)>>)

\* C10: when the emit step is reached, every entity of the delta entity list
\* is in the updated list, and every identity of the delta was projected in
\* this invocation and is in the state the invocation saved.
C10_DeltaWithinUpdated ==
    (Ended /\ idx > 0) =>
        /\ Elems(OutValue("NEW_FILIAIS_JSON")) \subseteq Elems(OutValue("UPDATED_SHEETS_JSON"))
        /\ Elems(OutValue("NEW_EMAILS_JSON")) \subseteq processed_this_run
        /\ ~fault.save =>
              /\ file.exists /\ file.parsable
              /\ Elems(OutValue("NEW_EMAILS_JSON")) \subseteq file.emails

C10_Witness ==
    /\ Ended /\ idx > 0 /\ ~fault.save
    /\ Len(OutValue("NEW_FILIAIS_JSON")) > 0
    /\ \E i \in 1..Len(latest) : ~Truthy(Get(EMAIL_TO_FILIAL, NormalizeEmail(latest[i].email)))

====
